---- MODULE Spec2Model ----
(***************************************************************************)
(* A model of vkb::GLTFLoader (framework/gltf_loader.cpp): the accessor    *)
(* helpers (get_attribute_data, get_attribute_format, convert_data), the   *)
(* index branch of parse_primitive, the parallel image pipeline of         *)
(* load_scene, its scene-graph assembly, and read_scene_from_file.         *)
(*                                                                         *)
(* Document indices are 0-based as in the source; TLA+ sequences are       *)
(* 1-based, so element i of a vector v is v[i + 1].                        *)
(***************************************************************************)
EXTENDS Integers, Sequences, FiniteSets, TLC

VARIABLES
    model,        \* GLTFLoader::model, the parsed tinygltf document
    pc,           \* position of the initiating thread
    vertex_data,  \* the outcome of get_attribute_data
    format,       \* the VkFormat returned by get_attribute_format
    submesh,      \* the sg::SubMesh under construction in parse_primitive
    mesh,         \* the sg::Mesh under construction in load_scene
    node_objects, \* every sg::Node created so far; a Node reference is an index into it
    nodes,        \* load_scene's vector of owned nodes (references), by document index
    root_node,    \* the synthetic root of the scene being assembled
    traverse_nodes, \* the work queue of (parent reference, document node index)
    scene_index,  \* how many of model.scenes have been assembled
    scene,        \* the sg::Scene being populated
    thread_pool,  \* the ThreadPool: its width and the image tasks handed to it
    image_components, \* one slot per document image, filled by the tasks
    image_index,  \* the loop variable of load_scene's two image loops
    command_buffer, \* the command buffer requested from the device
    transient_buffers, \* the staging buffers kept until the upload is done
    device,       \* the Device: features, live buffers, queue submissions, fence
    events,       \* history: the pipeline's events in the order they happened
    file_name,    \* read_scene_from_file's argument, as its path components
    parser,       \* what tinygltf's LoadASCIIFromFile yields for that file
    model_path,   \* GLTFLoader::model_path, as path components
    caller_scene, \* the sg::Scene the caller passed by reference
    returned      \* what read_scene_from_file returned

accessorVars == <<vertex_data, format, submesh, mesh>>
graphVars == <<node_objects, nodes, root_node, traverse_nodes, scene_index>>
imageVars == <<thread_pool, image_components, image_index, command_buffer,
               transient_buffers, device, events>>
loaderVars == <<file_name, parser, model_path, caller_scene, returned>>
vars == <<model, pc, vertex_data, format, submesh, mesh, node_objects, nodes, root_node,
          traverse_nodes, scene_index, scene, thread_pool, image_components, image_index,
          command_buffer, transient_buffers, device, events, file_name, parser, model_path,
          caller_scene, returned>>

(***************************************************************************)
(* Bounds of the model.                                                    *)
(***************************************************************************)
MaxIndexBytes == 4
MaxBufferLen == 3
MaxOffset == 2
MaxCount == 3

\* The byte values buffers are filled with, and what a read past a buffer's end may yield.
Bytes == {0, 3, 255}
Garbage == {0, 205}

SeqsOfLen(S, n) == [1..n -> S]
SeqsUpTo(S, n) == UNION {SeqsOfLen(S, k) : k \in 0..n}

At(v, i) == v[i + 1]

Zeros(n) == [k \in 1..n |-> 0]

(***************************************************************************)
(* tinygltf's component types and element types.                           *)
(***************************************************************************)
ComponentTypes == {"BYTE", "UNSIGNED_BYTE", "SHORT", "UNSIGNED_SHORT", "INT", "UNSIGNED_INT", "FLOAT"}
Types == {"SCALAR", "VEC2", "VEC3", "VEC4"}

GetComponentSizeInBytes(componentType) ==
    CASE componentType \in {"BYTE", "UNSIGNED_BYTE"} -> 1
      [] componentType \in {"SHORT", "UNSIGNED_SHORT"} -> 2
      [] componentType \in {"INT", "UNSIGNED_INT", "FLOAT"} -> 4
      [] componentType = "DOUBLE" -> 8

GetTypeSizeInBytes(type) ==
    CASE type = "SCALAR" -> 1
      [] type = "VEC2" -> 2
      [] type = "VEC3" -> 3
      [] type = "VEC4" -> 4
      [] type = "MAT2" -> 4

\* tinygltf::Accessor::ByteStride: tightly packed when the view declares no stride.
ByteStride(accessor, bufferView) ==
    IF bufferView.byteStride = 0
    THEN GetComponentSizeInBytes(accessor.componentType) * GetTypeSizeInBytes(accessor.type)
    ELSE bufferView.byteStride

(***************************************************************************)
(* get_attribute_data: the byte range [startByte, endByte) of the owning   *)
(* buffer.  The source builds the vector from two iterators without        *)
(* comparing them with the buffer's end: a range that leaves the buffer is *)
(* undefined behaviour, which is either a fault or a vector whose bytes    *)
(* past the end are whatever lies behind the buffer.                       *)
(***************************************************************************)
StartByte(m, accessorId) ==
    LET accessor == At(m.accessors, accessorId)
        bufferView == At(m.bufferViews, accessor.bufferView)
    IN  accessor.byteOffset + bufferView.byteOffset

EndByte(m, accessorId) ==
    LET accessor == At(m.accessors, accessorId)
        bufferView == At(m.bufferViews, accessor.bufferView)
    IN  StartByte(m, accessorId) + accessor.count * ByteStride(accessor, bufferView)

OwningBuffer(m, accessorId) ==
    LET accessor == At(m.accessors, accessorId)
        bufferView == At(m.bufferViews, accessor.bufferView)
    IN  At(m.buffers, bufferView.buffer)

InRange(m, accessorId) == EndByte(m, accessorId) <= Len(OwningBuffer(m, accessorId))

\* The outcomes of the iterator-range construction at line 116.
RangeCopy(buffer, startByte, endByte) ==
    IF endByte <= Len(buffer)
    THEN {[status |-> "ok", data |-> [k \in 1..(endByte - startByte) |-> buffer[startByte + k]]]}
    ELSE {[status |-> "fault", data |-> <<>>]}
         \cup {[status |-> "overread",
                data |-> [k \in 1..(endByte - startByte) |->
                             IF startByte + k <= Len(buffer) THEN buffer[startByte + k] ELSE g]]
               : g \in Garbage}

get_attribute_data(m, accessorId) ==
    RangeCopy(OwningBuffer(m, accessorId), StartByte(m, accessorId), EndByte(m, accessorId))

get_attribute_size(m, accessorId) == At(m.accessors, accessorId).count

get_attribute_stride(m, accessorId) ==
    LET accessor == At(m.accessors, accessorId)
    IN  ByteStride(accessor, At(m.bufferViews, accessor.bufferView))

(***************************************************************************)
(* get_attribute_format: one table per component type, looked up with      *)
(* std::map::at, which throws std::out_of_range for an element type that   *)
(* is not a key.                                                           *)
(***************************************************************************)
OutOfRangeThrown == "throw std::out_of_range"

MapAt(mapped_format, type) ==
    IF type \in DOMAIN mapped_format THEN mapped_format[type] ELSE OutOfRangeThrown

Format_R8_SINT ==
    [SCALAR |-> "R8_SINT", VEC2 |-> "R8G8_SINT", VEC3 |-> "R8G8B8_SINT", VEC4 |-> "R8G8B8A8_SINT"]
Format_R8_UINT ==
    [SCALAR |-> "R8_UINT", VEC2 |-> "R8G8_UINT", VEC3 |-> "R8G8B8_UINT", VEC4 |-> "R8G8B8A8_UINT"]
Format_R8_UNORM ==
    [SCALAR |-> "R8_UNORM", VEC2 |-> "R8G8_UNORM", VEC3 |-> "R8G8B8_UNORM", VEC4 |-> "R8G8B8A8_UNORM"]
Format_R16_UINT ==
    [SCALAR |-> "R16_UINT", VEC2 |-> "R16G16_UINT", VEC3 |-> "R16G16B16_UINT", VEC4 |-> "R16G16B16A16_UINT"]
Format_R16_UNORM ==
    [SCALAR |-> "R16_UNORM", VEC2 |-> "R16G16_UNORM", VEC3 |-> "R16G16B16_UNORM", VEC4 |-> "R16G16B16A16_UNORM"]
Format_R32_SINT ==
    [SCALAR |-> "R32_SINT", VEC2 |-> "R32G32_SINT", VEC3 |-> "R32G32B32_SINT", VEC4 |-> "R32G32B32A32_SINT"]
Format_R32_UINT ==
    [SCALAR |-> "R32_UINT", VEC2 |-> "R32G32_UINT", VEC3 |-> "R32G32B32_UINT", VEC4 |-> "R32G32B32A32_UINT"]
Format_R32_SFLOAT ==
    [SCALAR |-> "R32_SFLOAT", VEC2 |-> "R32G32_SFLOAT", VEC3 |-> "R32G32B32_SFLOAT", VEC4 |-> "R32G32B32A32_SFLOAT"]

\* A resolver that answers VK_FORMAT_UNDEFINED for a normalized 32-bit integer.
get_attribute_format_Strict(m, accessorId) ==
    LET accessor == At(m.accessors, accessorId)
    IN  CASE accessor.componentType = "BYTE" -> MapAt(Format_R8_SINT, accessor.type)
          [] accessor.componentType = "UNSIGNED_BYTE" ->
                IF accessor.normalized THEN MapAt(Format_R8_UNORM, accessor.type)
                                       ELSE MapAt(Format_R8_UINT, accessor.type)
          [] accessor.componentType = "SHORT" -> MapAt(Format_R8_SINT, accessor.type)
          [] accessor.componentType = "UNSIGNED_SHORT" ->
                IF accessor.normalized THEN MapAt(Format_R16_UNORM, accessor.type)
                                       ELSE MapAt(Format_R16_UINT, accessor.type)
          [] accessor.componentType = "INT" ->
                IF accessor.normalized THEN "UNDEFINED" ELSE MapAt(Format_R32_SINT, accessor.type)
          [] accessor.componentType = "UNSIGNED_INT" ->
                IF accessor.normalized THEN "UNDEFINED" ELSE MapAt(Format_R32_UINT, accessor.type)
          [] accessor.componentType = "FLOAT" -> MapAt(Format_R32_SFLOAT, accessor.type)
          [] OTHER -> "UNDEFINED"

get_attribute_format(m, accessorId) ==
    LET accessor == At(m.accessors, accessorId)
    IN  CASE accessor.componentType = "BYTE" -> MapAt(Format_R8_SINT, accessor.type)
          [] accessor.componentType = "UNSIGNED_BYTE" ->
                IF accessor.normalized THEN MapAt(Format_R8_UNORM, accessor.type)
                                       ELSE MapAt(Format_R8_UINT, accessor.type)
          [] accessor.componentType = "SHORT" -> MapAt(Format_R8_SINT, accessor.type)
          [] accessor.componentType = "UNSIGNED_SHORT" ->
                IF accessor.normalized THEN MapAt(Format_R16_UNORM, accessor.type)
                                       ELSE MapAt(Format_R16_UINT, accessor.type)
          [] accessor.componentType = "INT" -> MapAt(Format_R32_SINT, accessor.type)
          [] accessor.componentType = "UNSIGNED_INT" -> MapAt(Format_R32_UINT, accessor.type)
          [] accessor.componentType = "FLOAT" -> MapAt(Format_R32_SFLOAT, accessor.type)
          [] OTHER -> "UNDEFINED"

(***************************************************************************)
(* convert_data: a zero-filled result of elem_count * dstStride bytes, and *)
(* one std::copy of srcStride bytes per element.                           *)
(***************************************************************************)
CopyInto(result, idxDst, srcData, idxSrc, n) ==
    [k \in 1..Len(result) |->
        IF k > idxDst /\ k <= idxDst + n THEN srcData[idxSrc + (k - idxDst)] ELSE result[k]]

RECURSIVE ConvertLoop(_, _, _, _, _, _)
ConvertLoop(srcData, result, idxSrc, idxDst, srcStride, dstStride) ==
    IF idxSrc < Len(srcData) /\ idxDst < Len(result)
    THEN ConvertLoop(srcData, CopyInto(result, idxDst, srcData, idxSrc, srcStride),
                     idxSrc + srcStride, idxDst + dstStride, srcStride, dstStride)
    ELSE result

\* A widening that writes each element into the upper byte of its slot.
convert_data_HighByte(srcData, srcStride, dstStride) ==
    LET elem_count == Len(srcData) \div srcStride
    IN  ConvertLoop(srcData, Zeros(elem_count * dstStride), 0, dstStride - srcStride, srcStride, dstStride)

convert_data(srcData, srcStride, dstStride) ==
    LET elem_count == Len(srcData) \div srcStride
    IN  ConvertLoop(srcData, Zeros(elem_count * dstStride), 0, 0, srcStride, dstStride)

(***************************************************************************)
(* The accessor documents the helpers are applied to.                      *)
(***************************************************************************)
EmptyModel ==
    [accessors |-> <<>>, bufferViews |-> <<>>, buffers |-> <<>>,
     meshes |-> <<>>, images |-> <<>>, cameras |-> <<>>, nodes |-> <<>>, scenes |-> <<>>]

NewSubMesh ==
    [vertex_indices |-> 0, index_type |-> "UNASSIGNED", index_buffer |-> "NULL"]

NoData == [status |-> "none", data |-> <<>>]

\* parse_mesh: a mesh with no submesh yet.
NewMesh == [submeshes |-> <<>>]

AccessorIdle ==
    /\ vertex_data = NoData
    /\ format = "NONE"
    /\ submesh = NewSubMesh
    /\ mesh = NewMesh

\* A null reference (nullptr, or an absent index).
NoRef == -1

NewNode(name) == [name |-> name, parent |-> NoRef, children |-> <<>>, camera |-> NoRef]

NewScene ==
    [children |-> <<>>, nodes |-> <<>>, cameras |-> <<>>, images |-> <<>>,
     submeshes |-> <<>>, meshes |-> <<>>, materials |-> <<>>]

GraphIdle ==
    /\ node_objects = <<>>
    /\ nodes = <<>>
    /\ root_node = NoRef
    /\ traverse_nodes = <<>>
    /\ scene_index = 0

NewCommandBuffer == [state |-> "initial", commands |-> <<>>]

NewDevice(astc) ==
    [textureCompressionASTC_LDR |-> astc, buffers |-> {}, created |-> 0,
     submissions |-> <<>>, fence |-> "none"]

ImageIdle ==
    /\ thread_pool = [width |-> 1, tasks |-> <<>>, finished |-> <<>>]
    /\ image_components = <<>>
    /\ image_index = 0
    /\ command_buffer = NewCommandBuffer
    /\ transient_buffers = <<>>
    /\ device = NewDevice(TRUE)
    /\ events = <<>>

\* No read_scene_from_file call is under way.
LoaderIdle ==
    /\ file_name = <<>>
    /\ parser = [importResult |-> TRUE, err |-> "", warn |-> "", model |-> EmptyModel]
    /\ model_path = <<>>
    /\ caller_scene = NewScene
    /\ returned = "none"

\* Documents for get_attribute_data: one buffer, one view into it, one accessor.
ExtractDocs ==
    {[EmptyModel EXCEPT
        !.buffers = <<buffer>>,
        !.bufferViews = <<[buffer |-> 0, byteOffset |-> V, byteStride |-> byteStride]>>,
        !.accessors = <<[bufferView |-> 0, byteOffset |-> A, componentType |-> componentType,
                         type |-> "SCALAR", normalized |-> FALSE, count |-> N]>>]
     : buffer \in SeqsUpTo(Bytes, MaxBufferLen), V \in 0..MaxOffset, A \in 0..MaxOffset,
       N \in 0..MaxCount, byteStride \in {0, 4}, componentType \in {"UNSIGNED_BYTE", "UNSIGNED_SHORT"}}

\* Documents for parse_primitive: one primitive whose index accessor is tightly
\* packed and covers its buffer exactly, of any component type and element type.
ElementSize(componentType, type) == GetComponentSizeInBytes(componentType) * GetTypeSizeInBytes(type)

IndexDocsOf(componentType, type, normalized) ==
    {[EmptyModel EXCEPT
        !.buffers = <<buffer>>,
        !.bufferViews = <<[buffer |-> 0, byteOffset |-> 0, byteStride |-> 0]>>,
        !.accessors = <<[bufferView |-> 0, byteOffset |-> 0, componentType |-> componentType,
                         type |-> type, normalized |-> normalized,
                         count |-> Len(buffer) \div ElementSize(componentType, type)]>>,
        !.meshes = << <<[indices |-> 0, material |-> material]>> >>]
     : buffer \in {b \in SeqsUpTo(Bytes, MaxIndexBytes) : Len(b) % ElementSize(componentType, type) = 0},
       material \in {-1, 0}}

IndexDocs ==
    UNION {IndexDocsOf(componentType, type, normalized)
           : componentType \in ComponentTypes \cup {"DOUBLE"}, type \in Types \cup {"MAT2"},
             normalized \in BOOLEAN}

AccessorInit ==
    /\ \/ model \in ExtractDocs /\ pc = "get_attribute_data"
       \/ model \in IndexDocs /\ pc = "parse_primitive"
    /\ AccessorIdle
    /\ GraphIdle
    /\ ImageIdle
    /\ LoaderIdle
    /\ scene = NewScene

\* One call of get_attribute_data(&model, 0).
GetAttributeData ==
    /\ pc = "get_attribute_data"
    /\ \E d \in get_attribute_data(model, 0) :
          /\ vertex_data' = d
          /\ pc' = IF d.status = "fault" THEN "fault" ELSE "returned"
    /\ UNCHANGED <<model, format, submesh, mesh, graphVars, imageVars, scene, loaderVars>>

\* The index branch of parse_primitive (lines 721-751) for the document's primitive.
IndexType(fmt, index_type) ==
    CASE fmt = "R8_UINT" -> "UINT16"
      [] fmt = "R16_UINT" -> "UINT16"
      [] fmt = "R32_UINT" -> "UINT32"
      [] OTHER -> index_type

IndexData(fmt, index_data) ==
    IF fmt = "R8_UINT" THEN convert_data(index_data, 1, 2) ELSE index_data

ParsePrimitive ==
    /\ pc = "parse_primitive"
    /\ LET gltf_primitive == At(At(model.meshes, 0), 0)
           fmt == get_attribute_format(model, gltf_primitive.indices)
       IN  /\ gltf_primitive.indices >= 0
           /\ format' = fmt
           /\ IF fmt = OutOfRangeThrown
              THEN /\ pc' = "threw"
                   /\ vertex_data' = vertex_data
                   /\ submesh' = [submesh EXCEPT
                         !.vertex_indices = get_attribute_size(model, gltf_primitive.indices)]
              ELSE \E d \in get_attribute_data(model, gltf_primitive.indices) :
                      /\ vertex_data' = d
                      /\ IF d.status = "fault"
                         THEN /\ pc' = "fault"
                              /\ submesh' = [submesh EXCEPT
                                    !.vertex_indices = get_attribute_size(model, gltf_primitive.indices)]
                         ELSE /\ pc' = "primitive_done"
                              /\ submesh' = [vertex_indices |-> get_attribute_size(model, gltf_primitive.indices),
                                             index_type |-> IndexType(fmt, submesh.index_type),
                                             index_buffer |-> IndexData(fmt, d.data)]
    /\ UNCHANGED <<model, mesh, graphVars, imageVars, scene, loaderVars>>

\* Lines 510-521: the primitive's material, then the submesh joins its mesh and
\* the scene.  The document declares no material, so materials.at throws for
\* any index.
AddSubmesh ==
    /\ pc = "primitive_done"
    /\ LET gltf_primitive == At(At(model.meshes, 0), 0)
       IN  IF gltf_primitive.material < 0
           THEN /\ mesh' = [mesh EXCEPT !.submeshes = Append(@, Len(scene.submeshes))]
                /\ scene' = [scene EXCEPT !.submeshes =
                                 Append(@, [material |-> "default_material"] @@ submesh)]
                /\ pc' = "submesh_added"
           ELSE /\ pc' = "material_threw"
                /\ UNCHANGED <<mesh, scene>>
    /\ UNCHANGED <<model, vertex_data, format, submesh, graphVars, imageVars, loaderVars>>

\* Line 524: the mesh joins the scene.
AddMesh ==
    /\ pc = "submesh_added"
    /\ scene' = [scene EXCEPT !.meshes = Append(@, mesh)]
    /\ pc' = "mesh_added"
    /\ UNCHANGED <<model, accessorVars, graphVars, imageVars, loaderVars>>

AccessorNext == GetAttributeData \/ ParsePrimitive \/ AddSubmesh \/ AddMesh

AccessorSpec == AccessorInit /\ [][AccessorNext]_vars

(***************************************************************************)
(* Properties of the accessor helpers, checked under AccessorSpec.         *)
(***************************************************************************)
IndexAccessor == At(model.accessors, At(At(model.meshes, 0), 0).indices)
IndexBytes == At(model.buffers, 0)

\* C8: an 8-bit index sequence b[0..n-1] becomes the 2n bytes b[0],0,...,b[n-1],0
\* with index width 16-bit and index count n; a 16-bit or 32-bit index sequence is
\* stored byte for byte, with index width 16-bit resp. 32-bit.
C8_IndexWidthNormalizer ==
    pc = "primitive_done" =>
        /\ format = "R8_UINT" =>
              /\ Len(submesh.index_buffer) = 2 * Len(IndexBytes)
              /\ \A k \in 1..Len(IndexBytes) :
                    /\ submesh.index_buffer[2 * k - 1] = IndexBytes[k]
                    /\ submesh.index_buffer[2 * k] = 0
              /\ submesh.index_type = "UINT16"
              /\ submesh.vertex_indices = Len(IndexBytes)
        /\ format = "R16_UINT" =>
              /\ submesh.index_buffer = IndexBytes
              /\ submesh.index_type = "UINT16"
              /\ 2 * submesh.vertex_indices = Len(IndexBytes)
        /\ format = "R32_UINT" =>
              /\ submesh.index_buffer = IndexBytes
              /\ submesh.index_type = "UINT32"
              /\ 4 * submesh.vertex_indices = Len(IndexBytes)

\* C8's case: the 8-bit indices [3, 255, 0] have been widened.
C8_Witness ==
    /\ pc = "primitive_done"
    /\ format = "R8_UINT"
    /\ IndexBytes = <<3, 255, 0>>
    /\ submesh.index_buffer = <<3, 0, 255, 0, 0, 0>>

Resolved == pc \in {"primitive_done", "threw"}
Supported == IndexAccessor.componentType \in ComponentTypes /\ IndexAccessor.type \in Types

\* C9 as stated: the Format Resolver returns a value for every one of the 7x4x2
\* inputs and returns "undefined" for a normalized 32-bit integer component type.
C9_UndefinedForNormalizedInt32 ==
    (Resolved /\ Supported) =>
        /\ format # OutOfRangeThrown
        /\ (IndexAccessor.normalized /\ IndexAccessor.componentType \in {"INT", "UNSIGNED_INT"}) =>
              format = "UNDEFINED"

\* C9 as amended: the Format Resolver returns a defined format for every one of the
\* 7x4x2 inputs; the normalized flag changes the format of uint8 and uint16 only
\* and is ignored for int8, int16, int32, uint32 and float32 (a normalized int32
\* scalar resolves to R32_SINT); "undefined" is what a component type outside
\* the seven resolves to.
C9_TotalFlagIgnored ==
    Resolved =>
        LET plain == [model EXCEPT !.accessors[1].normalized = FALSE]
        IN  /\ Supported =>
                 /\ format \notin {OutOfRangeThrown, "UNDEFINED", "NONE"}
                 /\ IF IndexAccessor.componentType \in {"UNSIGNED_BYTE", "UNSIGNED_SHORT"}
                    THEN IndexAccessor.normalized => format # get_attribute_format(plain, 0)
                    ELSE format = get_attribute_format(plain, 0)
                 /\ (IndexAccessor.componentType = "INT" /\ IndexAccessor.type = "SCALAR") =>
                       format = "R32_SINT"
                 /\ (IndexAccessor.componentType = "UNSIGNED_INT" /\ IndexAccessor.type = "VEC2") =>
                       format = "R32G32_UINT"
            /\ IndexAccessor.componentType \notin ComponentTypes => format = "UNDEFINED"

\* C9's case: a normalized int32 scalar has been resolved.
C9_Witness ==
    /\ pc = "primitive_done"
    /\ IndexAccessor.componentType = "INT"
    /\ IndexAccessor.type = "SCALAR"
    /\ IndexAccessor.normalized
    /\ format = "R32_SINT"

\* C10: extract returns exactly the N*S bytes [V+A, V+A+N*S) of the owning buffer,
\* and fails with OutOfRange, reading nothing outside the buffer, whenever that
\* range is not contained in the buffer.
C10_ExtractBoundsChecked ==
    pc \in {"returned", "fault"} =>
        IF InRange(model, 0)
        THEN /\ vertex_data.status = "ok"
             /\ Len(vertex_data.data) = EndByte(model, 0) - StartByte(model, 0)
             /\ \A k \in 1..Len(vertex_data.data) :
                   vertex_data.data[k] = OwningBuffer(model, 0)[StartByte(model, 0) + k]
        ELSE vertex_data.status = "out_of_range"

IndexFormats == {"R8_UINT", "R16_UINT", "R32_UINT"}

\* The submeshes the scene's meshes refer to.
AttachedSubmeshes ==
    {scene.submeshes[r + 1] : r \in UNION {{scene.meshes[k].submeshes[j] : j \in 1..Len(scene.meshes[k].submeshes)}
                                           : k \in 1..Len(scene.meshes)}}

\* C13: a primitive whose index accessor resolves to a format other than
\* R8_UINT, R16_UINT, R32_UINT is not built: when its mesh has been added, no
\* index buffer exists for it and the primitive is neither attached to the
\* mesh nor a component of the scene.
C13_InvalidIndexAborted ==
    (pc = "mesh_added" /\ format \notin IndexFormats) =>
        /\ scene.submeshes = <<>>
        /\ AttachedSubmeshes = {}
        /\ submesh.index_buffer = "NULL"

\* The name of the Vulkan format with `channels` channels of `bits` bits each and
\* numeric kind `kind`: VkFormatName(16, 2, "UINT") = "R16G16_UINT".
VkFormatName(bits, channels, kind) ==
    LET channel == [c \in 1..4 |-> <<"R", "G", "B", "A">>[c] \o ToString(bits)]
        Join[c \in 0..4] == IF c = 0 THEN "" ELSE Join[c - 1] \o channel[c]
    IN  Join[channels] \o "_" \o kind

\* The numeric kinds that match a component type's signedness and float-ness.
FormatKinds(componentType) ==
    CASE componentType \in {"BYTE", "SHORT", "INT"} -> {"SINT", "SNORM"}
      [] componentType \in {"UNSIGNED_BYTE", "UNSIGNED_SHORT", "UNSIGNED_INT"} -> {"UINT", "UNORM"}
      [] componentType = "FLOAT" -> {"SFLOAT"}

\* C15: for every supported component type and arity the resolved format has
\* the component type's bit width per channel, a numeric kind matching its
\* signedness or float-ness, and as many channels as the arity (a signed
\* 16-bit scalar resolves to a 16-bit format).
C15_FormatMatchesComponent ==
    (Resolved /\ Supported) =>
        format \in {VkFormatName(8 * GetComponentSizeInBytes(IndexAccessor.componentType),
                                 GetTypeSizeInBytes(IndexAccessor.type), kind)
                    : kind \in FormatKinds(IndexAccessor.componentType)}

(***************************************************************************)
(* Scene-graph assembly: load_scene from "Load cameras" to its return.     *)
(***************************************************************************)
MaxNodes == 4
MaxEdges == 3
MaxRoots == 2
MaxDocSize == 4
MaxCameras == 2
\* The child references one node's vector holds before push_back throws std::bad_alloc.
MaxChildren == 5

NodeIndices(n) == 0..(n - 1)

\* The child list of each of n document nodes, read off a sequence of (parent, child) edges.
ChildrenOf(edges, parent) ==
    LET own == SelectSeq(edges, LAMBDA e : e[1] = parent)
    IN  [k \in 1..Len(own) |-> own[k][2]]

GltfNodes(n, edges) ==
    [i \in 1..n |-> [children |-> ChildrenOf(edges, i - 1), camera |-> NoRef]]

GltfScenes(n) ==
    {<<>>}
    \cup {<<[nodes |-> r]>> : r \in SeqsUpTo(NodeIndices(n), MaxRoots)}
    \cup {<<[nodes |-> r1], [nodes |-> r2]>> :
            r1 \in SeqsUpTo(NodeIndices(n), 1), r2 \in SeqsUpTo(NodeIndices(n), 1)}

RootCount(scenes) == IF scenes = <<>> THEN 0
                     ELSE IF Len(scenes) = 1 THEN Len(scenes[1].nodes)
                     ELSE Len(scenes[1].nodes) + Len(scenes[2].nodes)

\* Documents of up to MaxNodes nodes whose child lists and root lists hold at most
\* MaxDocSize entries together.
IsHierarchyDoc(m) ==
    \E n \in 0..MaxNodes :
        \E edges \in SeqsUpTo(NodeIndices(n) \X NodeIndices(n), MaxEdges) :
            \E scenes \in GltfScenes(n) :
                /\ Len(edges) + RootCount(scenes) <= MaxDocSize
                /\ m = [EmptyModel EXCEPT !.nodes = GltfNodes(n, edges), !.scenes = scenes]

GltfCamera(type) == [name |-> "camera", type |-> type, perspective |-> <<"1.0", "0.8", "0.5", "100.0">>]

\* Documents that define cameras, referenced (or not) by up to two childless nodes.
CameraDocs ==
    {[EmptyModel EXCEPT
        !.cameras = [k \in 1..Len(types) |-> GltfCamera(types[k])],
        !.nodes = [i \in 1..Len(refs) |-> [children |-> <<>>, camera |-> refs[i]]],
        !.scenes = IF Len(refs) = 0 THEN <<>>
                   ELSE <<[nodes |-> [i \in 1..Len(refs) |-> i - 1]]>>]
     : types \in SeqsUpTo({"perspective", "orthographic"}, MaxCameras),
       refs \in SeqsUpTo(NoRef..(MaxCameras - 1), 2)}

GraphInit ==
    /\ \/ IsHierarchyDoc(model)
       \/ model \in CameraDocs
    /\ pc = "cameras"
    /\ AccessorIdle
    /\ GraphIdle
    /\ ImageIdle
    /\ LoaderIdle
    /\ scene = NewScene

\* sg::Node::set_parent and sg::Node::add_child.
set_parent(objects, node, parent) == [objects EXCEPT ![node + 1].parent = parent]
add_child(objects, node, child) == [objects EXCEPT ![node + 1].children = Append(@, child)]

\* parse_camera: a perspective camera, or no camera for any other projection.
parse_camera(gltf_camera) ==
    IF gltf_camera.type = "perspective"
    THEN <<[name |-> gltf_camera.name, perspective |-> gltf_camera.perspective, node |-> NoRef]>>
    ELSE <<>>

\* Scene::add_component of a possibly empty unique_ptr: an empty one adds nothing.
add_component(components, component) == components \o component

RECURSIVE ParseCameras(_, _)
ParseCameras(gltf_cameras, components) ==
    IF gltf_cameras = <<>> THEN components
    ELSE ParseCameras(Tail(gltf_cameras), add_component(components, parse_camera(Head(gltf_cameras))))

\* "Load cameras" (lines 530-534).
LoadCameras ==
    /\ pc = "cameras"
    /\ scene' = [scene EXCEPT !.cameras = ParseCameras(model.cameras, @)]
    /\ pc' = "nodes"
    /\ UNCHANGED <<model, accessorVars, imageVars, graphVars, loaderVars>>

\* "Load nodes" (lines 541-565), one document node after the other; a camera index
\* with no camera behind it makes cameras.at throw.
RECURSIVE ParseNodes(_, _, _)
ParseNodes(gltf_nodes, objects, cameras) ==
    IF gltf_nodes = <<>> THEN [threw |-> FALSE, objects |-> objects, cameras |-> cameras]
    ELSE LET gltf_node == Head(gltf_nodes)
             node == Len(objects)
         IN  IF gltf_node.camera >= 0
             THEN IF gltf_node.camera >= Len(cameras)
                  THEN [threw |-> TRUE, objects |-> objects, cameras |-> cameras]
                  ELSE ParseNodes(Tail(gltf_nodes),
                                  Append(objects, [NewNode("node") EXCEPT !.camera = gltf_node.camera]),
                                  [cameras EXCEPT ![gltf_node.camera + 1].node = node])
             ELSE ParseNodes(Tail(gltf_nodes), Append(objects, NewNode("node")), cameras)

LoadNodes ==
    /\ pc = "nodes"
    /\ LET parsed == ParseNodes(model.nodes, node_objects, scene.cameras)
       IN  /\ node_objects' = parsed.objects
           /\ scene' = [scene EXCEPT !.cameras = parsed.cameras]
           /\ nodes' = [i \in 1..Len(parsed.objects) |-> i - 1]
           /\ pc' = IF parsed.threw THEN "threw" ELSE "scenes"
    /\ UNCHANGED <<model, accessorVars, imageVars, root_node, traverse_nodes, scene_index, loaderVars>>

\* Lines 570-577: the scene's synthetic root, and one queue entry per declared root.
BeginScene ==
    /\ pc = "scenes"
    /\ scene_index < Len(model.scenes)
    /\ LET gltf_scene == At(model.scenes, scene_index)
       IN  /\ root_node' = Len(node_objects)
           /\ node_objects' = Append(node_objects, NewNode("scene"))
           /\ traverse_nodes' = traverse_nodes \o
                 [k \in 1..Len(gltf_scene.nodes) |-> <<Len(node_objects), gltf_scene.nodes[k]>>]
    /\ pc' = "traverse"
    /\ UNCHANGED <<model, accessorVars, imageVars, nodes, scene_index, scene, loaderVars>>

\* The reference line 592 pairs with each child index: `root_node`, which inside the
\* loop is the name line 585 gives to node_it.first.
ChildEntryParent(node_it_first, current_node) == node_it_first

\* Lines 579-594: one iteration of the work-queue loop.
Traverse ==
    /\ pc = "traverse"
    /\ traverse_nodes # <<>>
    /\ LET node_it == Head(traverse_nodes)
           current_node == At(nodes, node_it[2])
           parent == node_it[1]
           declared == At(model.nodes, node_it[2]).children
       IN  IF Len(node_objects[parent + 1].children) >= MaxChildren
           THEN /\ pc' = "bad_alloc"
                /\ UNCHANGED <<node_objects, traverse_nodes>>
           ELSE /\ node_objects' = add_child(set_parent(node_objects, current_node, parent),
                                             parent, current_node)
                /\ traverse_nodes' = Tail(traverse_nodes) \o
                      [k \in 1..Len(declared) |->
                          <<ChildEntryParent(parent, current_node), declared[k]>>]
                /\ pc' = "traverse"
    /\ UNCHANGED <<model, accessorVars, imageVars, nodes, root_node, scene_index, scene, loaderVars>>

\* Lines 596-597, once the queue is empty.
EndScene ==
    /\ pc = "traverse"
    /\ traverse_nodes = <<>>
    /\ scene' = [scene EXCEPT !.children = Append(@, root_node)]
    /\ nodes' = Append(nodes, root_node)
    /\ root_node' = NoRef
    /\ scene_index' = scene_index + 1
    /\ pc' = "scenes"
    /\ UNCHANGED <<model, accessorVars, imageVars, node_objects, traverse_nodes, loaderVars>>

\* Line 601: the nodes move into the scene.
StoreNodes ==
    /\ pc = "scenes"
    /\ scene_index = Len(model.scenes)
    /\ scene' = [scene EXCEPT !.nodes = nodes]
    /\ nodes' = <<>>
    /\ pc' = "default_camera"
    /\ UNCHANGED <<model, accessorVars, imageVars, node_objects, root_node, traverse_nodes, scene_index, loaderVars>>

\* create_default_camera (lines 910-923).
DefaultGltfCamera ==
    [name |-> "default_camera", type |-> "perspective", perspective |-> <<"1.77", "1.0", "0.1", "1000.0">>]

create_default_camera == parse_camera(DefaultGltfCamera)

\* Lines 603-612 without line 611: the camera node is owned but is no root child.
DefaultCameraScene_NotAChild(sc, camera_node) ==
    [sc EXCEPT
        !.cameras = add_component(@, [k \in 1..Len(create_default_camera) |->
                                         [create_default_camera[k] EXCEPT !.node = camera_node]]),
        !.nodes = Append(@, camera_node)]

\* Lines 603-612: the scene once the default camera and its node are added.
DefaultCameraScene(sc, camera_node) ==
    [sc EXCEPT
        !.cameras = add_component(@, [k \in 1..Len(create_default_camera) |->
                                         [create_default_camera[k] EXCEPT !.node = camera_node]]),
        !.children = Append(@, camera_node),
        !.nodes = Append(@, camera_node)]

AddDefaultCamera ==
    /\ pc = "default_camera"
    /\ LET camera_node == Len(node_objects)
       IN  /\ node_objects' = Append(node_objects,
                                     [NewNode("default_camera") EXCEPT !.camera = Len(scene.cameras)])
           /\ scene' = DefaultCameraScene(scene, camera_node)
    /\ pc' = "done"
    /\ UNCHANGED <<model, accessorVars, imageVars, nodes, root_node, traverse_nodes, scene_index, loaderVars>>

GraphNext ==
    \/ LoadCameras
    \/ LoadNodes
    \/ BeginScene
    \/ Traverse
    \/ EndScene
    \/ StoreNodes
    \/ AddDefaultCamera

GraphSpec == GraphInit /\ [][GraphNext]_vars

(***************************************************************************)
(* Properties of scene-graph assembly, checked under GraphSpec.            *)
(***************************************************************************)
Occurrences(seq, x) == Cardinality({k \in 1..Len(seq) : seq[k] = x})
Elements(seq) == {seq[k] : k \in 1..Len(seq)}

DocNodes == NodeIndices(Len(model.nodes))
DocScenes == 0..(Len(model.scenes) - 1)
DeclaredChildren(p) == At(model.nodes, p).children
DeclaredRoots(s) == At(model.scenes, s).nodes

\* The document nodes reached from a set of node indices along declared children.
RECURSIVE Closure(_, _)
Closure(reached, steps) ==
    IF steps = 0 THEN reached
    ELSE Closure(reached \cup UNION {Elements(DeclaredChildren(p)) : p \in reached}, steps - 1)

ReachedFrom(start) == Closure(start, Len(model.nodes))
ReachedInScene(s) == ReachedFrom(Elements(DeclaredRoots(s)))
ReachedNodes == UNION {ReachedInScene(s) : s \in DocScenes}

\* How many root-list entries and reached child-list entries name document node c.
DeclaredEntries(c) ==
    Cardinality({s \in DocScenes : c \in Elements(DeclaredRoots(s))})
    + Cardinality({p \in ReachedNodes : c \in Elements(DeclaredChildren(p))})

\* Every list names a node at most once, and no two lists name the same node.
TreeShaped ==
    /\ \A c \in DocNodes : DeclaredEntries(c) <= 1
    /\ \A s \in DocScenes : \A c \in DocNodes : Occurrences(DeclaredRoots(s), c) <= 1
    /\ \A p \in DocNodes : \A c \in DocNodes : Occurrences(DeclaredChildren(p), c) <= 1

\* A node index declared in the lists of two different parents (nodes or scenes).
DuplicateParentDeclared == \E c \in DocNodes : DeclaredEntries(c) >= 2

\* A cycle of declared children that a scene root leads to.
ReachableCycle ==
    \E p \in ReachedNodes : p \in ReachedFrom(Elements(DeclaredChildren(p)))

\* The runtime node of document node i is node_objects[i + 1]; the synthetic root
\* of document scene s is the s-th root child of the scene.
SceneRoot(s) == scene.children[s + 1]
Parent(n) == node_objects[n + 1].parent
Children(n) == node_objects[n + 1].children
AllObjects == 0..(Len(node_objects) - 1)

\* C1: after load, every declared child c of a reached document node p has p as
\* its parent and sits in p's child list, not in the scene root's; the children of
\* a scene's synthetic root are exactly the scene's declared roots.
C1_HierarchyPreserved ==
    (pc = "done" /\ TreeShaped) =>
        \A s \in DocScenes :
            /\ Children(SceneRoot(s)) = DeclaredRoots(s)
            /\ \A p \in ReachedInScene(s) :
                  /\ Children(p) = DeclaredChildren(p)
                  /\ \A c \in Elements(DeclaredChildren(p)) :
                        /\ Parent(c) = p
                        /\ c \notin Elements(Children(SceneRoot(s)))

\* C2: a document that declares one node index under two different parents is
\* rejected, so no completed load holds a node in the child lists of two nodes or
\* a parent back-reference that disagrees with the child list holding the node.
C2_DuplicateParentRejected ==
    pc = "done" =>
        /\ ~DuplicateParentDeclared
        /\ \A c \in AllObjects :
              Cardinality({p \in AllObjects : c \in Elements(Children(p))}) <= 1
        /\ \A p \in AllObjects : \A c \in Elements(Children(p)) : Parent(c) = p

\* C3: for a document with a cycle reachable from a scene root the cycle is
\* detected: the work-queue loop hands no node to the same parent a second time,
\* it does not run until the memory for child references is exhausted, and a
\* load that completes leaves an acyclic node graph.
C3_CycleDetected ==
    ReachableCycle =>
        /\ pc # "bad_alloc"
        /\ \A p \in AllObjects : \A c \in AllObjects : Occurrences(Children(p), c) <= 1
        /\ pc = "done" => \A n \in AllObjects : Parent(n) # n

DefaultCameras == {k \in 1..Len(scene.cameras) : scene.cameras[k].name = "default_camera"}

\* C4: every load that completes holds exactly one default perspective camera,
\* placed after the document's cameras, on a synthesized node that is a root child
\* of the scene; camera and node refer to each other.
C4_DefaultCamera ==
    pc = "done" =>
        /\ DefaultCameras = {Len(scene.cameras)}
        /\ Len(scene.cameras) - 1
              = Cardinality({k \in 1..Len(model.cameras) : model.cameras[k].type = "perspective"})
        /\ LET default_camera == scene.cameras[Len(scene.cameras)]
               camera_node == default_camera.node
           IN  /\ default_camera.perspective = <<"1.77", "1.0", "0.1", "1000.0">>
               /\ camera_node \in AllObjects
               /\ camera_node \notin DocNodes
               /\ node_objects[camera_node + 1].name = "default_camera"
               /\ node_objects[camera_node + 1].camera = Len(scene.cameras) - 1
               /\ Parent(camera_node) = NoRef
               /\ Occurrences(scene.children, camera_node) = 1
               /\ Occurrences(scene.nodes, camera_node) = 1
               /\ Len(scene.children) = Len(model.scenes) + 1

\* C4's case: a document with its own camera on a node has been loaded.
C4_Witness ==
    /\ pc = "done"
    /\ Len(model.cameras) = 2
    /\ Len(scene.cameras) = 3
    /\ scene.cameras[1].node = 0
    /\ scene.cameras[3].name = "default_camera"

\* The nodes that hold camera component c.
HoldersOf(c) == {n \in AllObjects : node_objects[n + 1].camera = c}

\* C14: after load, every camera is held by at most one node, and the camera a
\* node holds refers back to that node.
C14_CameraExclusive ==
    pc = "done" =>
        \A c \in 0..(Len(scene.cameras) - 1) :
            /\ Cardinality(HoldersOf(c)) <= 1
            /\ \A n \in HoldersOf(c) : scene.cameras[c + 1].node = n

(***************************************************************************)
(* The parallel image pipeline: load_scene from "Load images" to the       *)
(* hand-over of the images to the scene (lines 385-435).                   *)
(***************************************************************************)
MaxImages == 3
MaxWidth == 2

Mipmap(level, offset, extent) == [level |-> level, offset |-> offset, extent |-> extent]

\* sg::Image::load: the external decoder.  A path it cannot decode yields no image.
ImageLoad(name, uri) ==
    CASE uri = "tex.png" ->
            <<[name |-> name, format |-> "RGBA", data |-> <<11>>,
               mipmaps |-> <<Mipmap(0, 0, <<1, 1, 1>>)>>, vk_image |-> FALSE]>>
      [] uri = "tex.astc" ->
            <<[name |-> name, format |-> "ASTC", data |-> <<21>>,
               mipmaps |-> <<Mipmap(0, 0, <<2, 2, 1>>)>>, vk_image |-> FALSE]>>
      [] OTHER -> <<>>

is_astc(fmt) == fmt = "ASTC"

\* sg::Astc(image): the image decoded to one uncompressed texel per pixel.
Astc(image) ==
    LET extent == image.mipmaps[1].extent
    IN  [image EXCEPT !.format = "RGBA",
                      !.data = [k \in 1..(extent[1] * extent[2]) |-> 30],
                      !.mipmaps = <<Mipmap(0, 0, extent)>>]

Half(x) == IF x \div 2 < 1 THEN 1 ELSE x \div 2

\* sg::Image::generate_mipmaps: halve the last level until it is 1x1.
RECURSIVE generate_mipmaps(_)
generate_mipmaps(image) ==
    LET prev == image.mipmaps[Len(image.mipmaps)]
        next == <<Half(prev.extent[1]), Half(prev.extent[2]), 1>>
    IN  IF prev.extent[1] = 1 /\ prev.extent[2] = 1 THEN image
        ELSE generate_mipmaps(
                 [image EXCEPT !.mipmaps = Append(@, Mipmap(prev.level + 1, Len(image.data), next)),
                               !.data = @ \o [k \in 1..(next[1] * next[2]) |-> 31 + prev.level]])

\* parse_image (lines 817-854): the image, or nothing when a null image is
\* dereferenced at line 841 (the process faults).
parse_image(gltf_image, dev) ==
    LET loaded == IF gltf_image.image # <<>>
                  THEN <<[name |-> gltf_image.name, format |-> "RGBA", data |-> gltf_image.image,
                          mipmaps |-> <<Mipmap(0, 0, <<gltf_image.width, gltf_image.height, 1>>)>>,
                          vk_image |-> FALSE]>>
                  ELSE ImageLoad(gltf_image.name, gltf_image.uri)
    IN  IF loaded = <<>> THEN <<>>
        ELSE LET image == IF is_astc(loaded[1].format) /\ ~dev.textureCompressionASTC_LDR
                          THEN generate_mipmaps(Astc(loaded[1]))
                          ELSE loaded[1]
             IN  <<[image EXCEPT !.vk_image = TRUE]>>

\* The image descriptors a document may hold at index i; the name tells the index.
GltfImages(i) ==
    {[name |-> i, image |-> <<7>>, width |-> 1, height |-> 1, uri |-> ""]}
    \cup {[name |-> i, image |-> <<>>, width |-> 0, height |-> 0, uri |-> uri]
          : uri \in {"tex.png", "tex.astc", "missing.bin"}}

IsImageDoc(m) ==
    \E K \in 0..MaxImages :
        \E images \in [1..K -> UNION {GltfImages(i) : i \in 0..(MaxImages - 1)}] :
            /\ \A k \in 1..K : images[k].name = k - 1
            /\ m = [EmptyModel EXCEPT !.images = images]

ImageInit ==
    /\ IsImageDoc(model)
    /\ pc = "dispatch"
    /\ AccessorIdle
    /\ GraphIdle
    /\ scene = NewScene
    /\ \E width \in 1..MaxWidth : thread_pool = [width |-> width, tasks |-> <<>>, finished |-> <<>>]
    /\ image_components = [k \in 1..Len(model.images) |-> <<>>]
    /\ image_index = 0
    /\ command_buffer = NewCommandBuffer
    /\ transient_buffers = <<>>
    /\ \E astc \in BOOLEAN : device = NewDevice(astc)
    /\ events = <<>>
    /\ LoaderIdle

NewTask == [state |-> "queued", image |-> <<>>, wrote |-> NoRef]

\* Lines 389-400: one iteration hands the task for image_index to the pool.
Dispatch ==
    /\ pc = "dispatch"
    /\ image_index < Len(model.images)
    /\ thread_pool' = [thread_pool EXCEPT !.tasks = Append(@, NewTask)]
    /\ image_index' = image_index + 1
    /\ UNCHANGED <<model, pc, accessorVars, graphVars, scene, image_components,
                   command_buffer, transient_buffers, device, events, loaderVars>>

Running == {t \in 1..Len(thread_pool.tasks) : thread_pool.tasks[t].state = "running"}

\* A worker takes the task dispatched for image t - 1 and runs line 393.
TaskRun(t) ==
    /\ pc = "dispatch"
    /\ thread_pool.tasks[t].state = "queued"
    /\ Cardinality(Running) < thread_pool.width
    /\ LET parsed == parse_image(At(model.images, t - 1), device)
       IN  IF parsed = <<>>
           THEN /\ pc' = "fault"
                /\ UNCHANGED <<model, thread_pool>>
           ELSE /\ thread_pool' = [thread_pool EXCEPT !.tasks[t].state = "running",
                                                      !.tasks[t].image = parsed]
                /\ model' = [model EXCEPT !.images[t].image = <<>>]
                /\ pc' = pc
    /\ UNCHANGED <<accessorVars, graphVars, scene, image_components, image_index,
                   command_buffer, transient_buffers, device, events, loaderVars>>

\* The slot a task assigns at line 397, were the lambda to read the loop variable.
StoreIndex_LoopVariable(image_index_arg) ==
    IF image_index < Len(model.images) THEN image_index ELSE Len(model.images) - 1

\* The slot a task assigns at line 397: its own argument, passed by value at line 399.
StoreIndex(image_index_arg) == image_index_arg

\* Line 397: the task moves its image into the output collection.
TaskStore(t) ==
    /\ pc = "dispatch"
    /\ thread_pool.tasks[t].state = "running"
    /\ image_components' = [image_components EXCEPT ![StoreIndex(t - 1) + 1] = thread_pool.tasks[t].image]
    /\ thread_pool' = [thread_pool EXCEPT
                          !.tasks[t] = [state |-> "finished", image |-> <<>>,
                                        wrote |-> StoreIndex(t - 1)],
                          !.finished = Append(@, t - 1)]
    /\ UNCHANGED <<model, pc, accessorVars, graphVars, scene, image_index,
                   command_buffer, transient_buffers, device, events, loaderVars>>

\* The order of load_scene's steps from the submit on, with the staging buffers
\* cleared before the fence is waited for.
AfterStep_ReleaseBeforeWait(step) ==
    CASE step = "submit" -> "clear"
      [] step = "clear" -> "fence_wait"
      [] step = "fence_wait" -> "fence_reset"
      [] step = "fence_reset" -> "command_pool_reset"
      [] step = "command_pool_reset" -> "set_components"
      [] step = "set_components" -> "images_done"

\* The order of load_scene's steps from the submit on (lines 427-435).
AfterStep(step) ==
    CASE step = "submit" -> "fence_wait"
      [] step = "fence_wait" -> "fence_reset"
      [] step = "fence_reset" -> "command_pool_reset"
      [] step = "command_pool_reset" -> "clear"
      [] step = "clear" -> "set_components"
      [] step = "set_components" -> "images_done"

\* Line 402: thread_pool.wait() returns once every dispatched task has finished.
WaitAll ==
    /\ pc = "dispatch"
    /\ image_index = Len(model.images)
    /\ \A t \in 1..Len(thread_pool.tasks) : thread_pool.tasks[t].state = "finished"
    /\ pc' = "begin"
    /\ events' = Append(events, "wait_returned")
    /\ UNCHANGED <<model, accessorVars, graphVars, scene, thread_pool, image_components,
                   image_index, command_buffer, transient_buffers, device, loaderVars>>

\* Lines 405-409.
BeginCommands ==
    /\ pc = "begin"
    /\ command_buffer' = [state |-> "recording", commands |-> <<>>]
    /\ image_index' = 0
    /\ pc' = "upload"
    /\ events' = Append(events, "begin")
    /\ UNCHANGED <<model, accessorVars, graphVars, scene, thread_pool, image_components,
                   transient_buffers, device, loaderVars>>

Barrier(image, old_layout, new_layout) ==
    [op |-> "image_memory_barrier", image |-> image.name, buffer |-> NoRef,
     old_layout |-> old_layout, new_layout |-> new_layout, regions |-> <<>>]

CopyRegion(mipmap) ==
    [bufferOffset |-> mipmap.offset, mipLevel |-> mipmap.level, imageExtent |-> mipmap.extent]

\* upload_image with a copy of the base level only.
upload_image_BaseLevelOnly(data, image) ==
    <<Barrier(image, "UNDEFINED", "TRANSFER_DST_OPTIMAL"),
      [op |-> "copy_buffer_to_image", image |-> image.name, buffer |-> data.id,
       old_layout |-> "", new_layout |-> "",
       regions |-> <<CopyRegion(image.mipmaps[1])>>],
      Barrier(image, "TRANSFER_DST_OPTIMAL", "SHADER_READ_ONLY_OPTIMAL")>>

\* upload_image (lines 267-311): the commands it records.
upload_image(data, image) ==
    <<Barrier(image, "UNDEFINED", "TRANSFER_DST_OPTIMAL"),
      [op |-> "copy_buffer_to_image", image |-> image.name, buffer |-> data.id,
       old_layout |-> "", new_layout |-> "",
       regions |-> [i \in 1..Len(image.mipmaps) |-> CopyRegion(image.mipmaps[i])]],
      Barrier(image, "TRANSFER_DST_OPTIMAL", "SHADER_READ_ONLY_OPTIMAL")>>

\* Lines 411-421: one iteration of the upload loop.
UploadImage ==
    /\ pc = "upload"
    /\ image_index < Len(image_components)
    /\ LET image == At(image_components, image_index)
           stage_buffer == [id |-> device.created, data |-> image[1].data]
       IN  IF image = <<>>
           THEN /\ pc' = "fault"
                /\ UNCHANGED <<image_index, command_buffer, transient_buffers, device, events>>
           ELSE /\ device' = [device EXCEPT !.buffers = @ \cup {stage_buffer.id},
                                            !.created = @ + 1]
                /\ command_buffer' = [command_buffer EXCEPT
                      !.commands = @ \o upload_image(stage_buffer, image[1])]
                /\ transient_buffers' = Append(transient_buffers, stage_buffer)
                /\ image_index' = image_index + 1
                /\ events' = Append(events, "upload")
                /\ pc' = pc
    /\ UNCHANGED <<model, accessorVars, graphVars, scene, thread_pool, image_components, loaderVars>>

\* Line 423.
EndCommands ==
    /\ pc = "upload"
    /\ image_index = Len(image_components)
    /\ command_buffer' = [command_buffer EXCEPT !.state = "executable"]
    /\ pc' = "submit"
    /\ events' = Append(events, "end")
    /\ UNCHANGED <<model, accessorVars, graphVars, scene, thread_pool, image_components,
                   image_index, transient_buffers, device, loaderVars>>

\* Lines 425-427: the one queue submit, with a fence.
Submit ==
    /\ pc = "submit"
    /\ device' = [device EXCEPT !.submissions = Append(@, command_buffer), !.fence = "unsignaled"]
    /\ command_buffer' = [command_buffer EXCEPT !.state = "pending"]
    /\ pc' = AfterStep("submit")
    /\ events' = Append(events, "submit")
    /\ UNCHANGED <<model, accessorVars, graphVars, scene, thread_pool, image_components,
                   image_index, transient_buffers, loaderVars>>

\* The device finishes the submitted batch and signals its fence.
GpuComplete ==
    /\ device.fence = "unsignaled"
    /\ device' = [device EXCEPT !.fence = "signaled"]
    /\ command_buffer' = IF command_buffer.state = "pending"
                         THEN [command_buffer EXCEPT !.state = "invalid"]
                         ELSE command_buffer
    /\ events' = Append(events, "signaled")
    /\ UNCHANGED <<model, pc, accessorVars, graphVars, scene, thread_pool, image_components,
                   image_index, transient_buffers, loaderVars>>

\* Line 429: blocks until the fence is signaled.
FenceWait ==
    /\ pc = "fence_wait"
    /\ device.fence = "signaled"
    /\ pc' = AfterStep("fence_wait")
    /\ events' = Append(events, "fence_observed")
    /\ UNCHANGED <<model, accessorVars, graphVars, scene, thread_pool, image_components,
                   image_index, command_buffer, transient_buffers, device, loaderVars>>

\* Line 430.
FenceReset ==
    /\ pc = "fence_reset"
    /\ device' = [device EXCEPT !.fence = IF @ = "signaled" THEN "none" ELSE @]
    /\ pc' = AfterStep("fence_reset")
    /\ events' = Append(events, "fence_pool_reset")
    /\ UNCHANGED <<model, accessorVars, graphVars, scene, thread_pool, image_components,
                   image_index, command_buffer, transient_buffers, loaderVars>>

\* Line 431.
CommandPoolReset ==
    /\ pc = "command_pool_reset"
    /\ command_buffer' = NewCommandBuffer
    /\ pc' = AfterStep("command_pool_reset")
    /\ events' = Append(events, "command_pool_reset")
    /\ UNCHANGED <<model, accessorVars, graphVars, scene, thread_pool, image_components,
                   image_index, transient_buffers, device, loaderVars>>

\* Line 433: the staging buffers are destroyed.
ClearTransient ==
    /\ pc = "clear"
    /\ device' = [device EXCEPT !.buffers = @ \ {transient_buffers[k].id : k \in 1..Len(transient_buffers)}]
    /\ transient_buffers' = <<>>
    /\ pc' = AfterStep("clear")
    /\ events' = Append(events, "staging_released")
    /\ UNCHANGED <<model, accessorVars, graphVars, scene, thread_pool, image_components,
                   image_index, command_buffer, loaderVars>>

\* Line 435: the images move into the scene; the later stages follow.
SetComponents ==
    /\ pc = "set_components"
    /\ scene' = [scene EXCEPT !.images = [k \in 1..Len(image_components) |-> image_components[k][1]]]
    /\ image_components' = <<>>
    /\ pc' = AfterStep("set_components")
    /\ events' = Append(events, "images_handed")
    /\ UNCHANGED <<model, accessorVars, graphVars, thread_pool, image_index, command_buffer,
                   transient_buffers, device, loaderVars>>

ImageNext ==
    \/ Dispatch
    \/ \E t \in 1..Len(thread_pool.tasks) : TaskRun(t)
    \/ \E t \in 1..Len(thread_pool.tasks) : TaskStore(t)
    \/ WaitAll
    \/ BeginCommands
    \/ UploadImage
    \/ EndCommands
    \/ Submit
    \/ GpuComplete
    \/ FenceWait
    \/ FenceReset
    \/ CommandPoolReset
    \/ ClearTransient
    \/ SetComponents

ImageSpec == ImageInit /\ [][ImageNext]_vars

(***************************************************************************)
(* Properties of the image pipeline.                                       *)
(***************************************************************************)
Tasks == thread_pool.tasks

WaitReturned == \E k \in 1..Len(events) : events[k] = "wait_returned"

\* What descriptor d materializes to on this device, read off the descriptor.
MaterializedFrom(image, d) ==
    /\ image.name = d.name
    /\ image.vk_image
    /\ d.uri = "" => /\ image.format = "RGBA"
                     /\ image.data = <<7>>
                     /\ image.mipmaps = <<Mipmap(0, 0, <<d.width, d.height, 1>>)>>
    /\ d.uri = "tex.png" => image.format = "RGBA" /\ Len(image.mipmaps) = 1
    /\ (d.uri = "tex.astc" /\ device.textureCompressionASTC_LDR) =>
           image.format = "ASTC" /\ Len(image.mipmaps) = 1
    /\ (d.uri = "tex.astc" /\ ~device.textureCompressionASTC_LDR) =>
           image.format = "RGBA" /\ Len(image.mipmaps) = 2 /\ Len(image.data) = 5

\* C5: every task writes only the output slot of its own image index, the
\* tasks leave the scene, the command buffer and the staging buffers alone,
\* and once the wait for all tasks has returned (and until the images are
\* handed to the scene) slot i holds the image materialized from descriptor i.
C5_OwnSlotOnly ==
    /\ \A t \in 1..Len(Tasks) : Tasks[t].wrote \in {NoRef, t - 1}
    /\ \A i \in 1..Len(image_components) :
           image_components[i] # <<>> =>
               /\ i <= Len(Tasks)
               /\ Tasks[i].wrote = i - 1
               /\ MaterializedFrom(image_components[i][1], model.images[i])
    /\ pc = "dispatch" =>
           scene = NewScene /\ command_buffer = NewCommandBuffer /\ transient_buffers = <<>>
    /\ (WaitReturned /\ pc \notin {"images_done", "fault"}) =>
           /\ Len(image_components) = Len(model.images)
           /\ \A i \in 1..Len(model.images) :
                  /\ image_components[i] # <<>>
                  /\ MaterializedFrom(image_components[i][1], model.images[i])

\* Three images on a pool of two workers, the task of image 2 having stored
\* before that of image 0, and the wait returned.
C5_Witness ==
    /\ pc = "begin"
    /\ thread_pool.width = 2
    /\ Len(model.images) = 3
    /\ model.images[1].uri = ""
    /\ model.images[2].uri = "tex.astc"
    /\ ~device.textureCompressionASTC_LDR
    /\ thread_pool.finished = <<2, 0, 1>>
    /\ \A i \in 1..3 : image_components[i] # <<>> /\ image_components[i][1].name = i - 1

Recorded == command_buffer.state \in {"executable", "pending", "invalid"}

StagingOf(i) == transient_buffers[i]

\* C6: the recorded command sequence is, for image 0, 1, ... in ascending
\* order: a barrier undefined -> transfer destination, a copy from that
\* image's own staging buffer with one region per mipmap (region m has the
\* offset, level and extent of mipmap m), a barrier transfer destination ->
\* shader read only; nothing else is recorded.
C6_UploadSequence ==
    (Recorded /\ Len(transient_buffers) = Len(image_components)) =>
        LET K == Len(image_components)
            commands == command_buffer.commands
        IN  /\ Len(commands) = 3 * K
            /\ \A i \in 1..K :
                 LET image == image_components[i][1]
                     first == commands[3 * i - 2]
                     copy == commands[3 * i - 1]
                     last == commands[3 * i]
                 IN  /\ image.name = i - 1
                     /\ first.op = "image_memory_barrier" /\ first.image = i - 1
                     /\ first.old_layout = "UNDEFINED"
                     /\ first.new_layout = "TRANSFER_DST_OPTIMAL"
                     /\ copy.op = "copy_buffer_to_image" /\ copy.image = i - 1
                     /\ copy.buffer = StagingOf(i).id
                     /\ StagingOf(i).data = image.data
                     /\ \A j \in 1..K : j # i => StagingOf(j).id # StagingOf(i).id
                     /\ Len(copy.regions) = Len(image.mipmaps)
                     /\ \A m \in 1..Len(image.mipmaps) :
                            /\ copy.regions[m].bufferOffset = image.mipmaps[m].offset
                            /\ copy.regions[m].mipLevel = image.mipmaps[m].level
                            /\ copy.regions[m].imageExtent = image.mipmaps[m].extent
                     /\ last.op = "image_memory_barrier" /\ last.image = i - 1
                     /\ last.old_layout = "TRANSFER_DST_OPTIMAL"
                     /\ last.new_layout = "SHADER_READ_ONLY_OPTIMAL"

\* Two images recorded, the second with a two-level mipmap chain, and the
\* task of the second image finished first.
C6_Witness ==
    /\ command_buffer.state = "executable"
    /\ Len(image_components) = 2
    /\ thread_pool.finished = <<1, 0>>
    /\ Len(command_buffer.commands) = 6
    /\ Len(command_buffer.commands[5].regions) = 2
    /\ command_buffer.commands[5].regions[2].mipLevel = 1

Rank(event) ==
    CASE event = "wait_returned" -> 1
      [] event = "begin" -> 2
      [] event = "upload" -> 3
      [] event = "end" -> 4
      [] event = "submit" -> 5
      [] event = "signaled" -> 6
      [] event = "fence_observed" -> 7
      [] event \in {"fence_pool_reset", "command_pool_reset", "staging_released"} -> 8
      [] event = "images_handed" -> 9

BatchEvents ==
    {"wait_returned", "begin", "end", "submit", "signaled", "fence_observed",
     "fence_pool_reset", "command_pool_reset", "staging_released", "images_handed"}

Count(event) == Cardinality({k \in 1..Len(events) : events[k] = event})

\* C7: the events of one load occur in the order wait returned < uploads
\* recorded < command buffer ended < submit < fence observed signaled <
\* {fence pool reset, command pool reset, staging buffers released} < images
\* handed to the scene; each batch event occurs at most once, and exactly
\* once in a load that gets to the later stages.  While the submitted batch
\* is unsignaled its staging buffers are alive and the command pool is not
\* reset, and there is never a second submission.
C7_BatchOrder ==
    /\ \A k \in 1..(Len(events) - 1) : Rank(events[k]) <= Rank(events[k + 1])
    /\ \A e \in BatchEvents : Count(e) <= 1
    /\ Count("upload") >= 1 =>
           \A t \in 1..Len(Tasks) : Tasks[t].state = "finished"
    /\ Count("wait_returned") = 1 =>
           Len(Tasks) = Len(model.images) /\ \A t \in 1..Len(Tasks) : Tasks[t].state = "finished"
    /\ Len(device.submissions) <= 1
    /\ device.fence = "unsignaled" =>
           /\ command_buffer.state = "pending"
           /\ Len(transient_buffers) = Len(model.images)
           /\ \A k \in 1..Len(device.submissions[1].commands) :
                  LET c == device.submissions[1].commands[k]
                  IN  c.op = "copy_buffer_to_image" => c.buffer \in device.buffers
    /\ pc = "images_done" =>
           /\ \A e \in BatchEvents : Count(e) = 1
           /\ Count("upload") = Len(model.images)
           /\ Len(scene.images) = Len(model.images)
           /\ device.buffers = {}
           /\ device.fence = "none"
           /\ command_buffer = NewCommandBuffer

\* A load of two images that has run the whole batch.
C7_Witness ==
    /\ pc = "images_done"
    /\ Len(scene.images) = 2
    /\ Len(device.submissions) = 1
    /\ Len(device.submissions[1].commands) = 6
    /\ Len(events) = 12

\* The external descriptors whose decode yields no image.
FailedDecodes ==
    {i \in 1..Len(model.images) :
        model.images[i].uri # "" /\ ImageLoad(model.images[i].name, model.images[i].uri) = <<>>}

\* C12: when the decoder yields no image for a descriptor, no null image is
\* dereferenced (the load does not fault), no sibling task is lost, and a
\* load that has handed its images over has uploaded every other image.
C12_DecodeFailureConfined ==
    FailedDecodes # {} =>
        /\ pc # "fault"
        /\ pc = "images_done" =>
               /\ \A t \in 1..Len(Tasks) : Tasks[t].state = "finished"
               /\ Count("upload") = Len(model.images) - Cardinality(FailedDecodes)

(***************************************************************************)
(* read_scene_from_file (lines 319-361) and the load_scene it calls.       *)
(***************************************************************************)
MaxLoadImages == 2

\* The scene the caller holds before the call.
PreviousScene == [NewScene EXCEPT !.nodes = <<0>>]

\* A document with the given images and n nodes, each the root of a scene of
\* its own, without samplers, textures, materials, meshes or cameras.
LoadDoc(images, n) ==
    [EmptyModel EXCEPT
        !.images = images,
        !.nodes = [i \in 1..n |-> [children |-> <<>>, camera |-> NoRef]],
        !.scenes = [i \in 1..n |-> [nodes |-> <<i - 1>>]]]

\* What the parser can yield: its return value, its two messages and the
\* document it wrote into `model`.
IsParserOutcome(p) ==
    \E importResult \in BOOLEAN, err \in {"", "parse error"}, warn \in {"", "warning"},
       K \in 0..MaxLoadImages, n \in 0..1 :
        \E images \in [1..K -> UNION {GltfImages(i) : i \in 0..(MaxLoadImages - 1)}] :
            /\ \A k \in 1..K : images[k].name = k - 1
            /\ p = [importResult |-> importResult, err |-> err, warn |-> warn,
                    model |-> LoadDoc(images, n)]

LoadInit ==
    /\ model = EmptyModel
    /\ pc = "read_scene_from_file"
    /\ AccessorIdle
    /\ GraphIdle
    /\ scene = NewScene
    /\ \E width \in 1..MaxWidth : thread_pool = [width |-> width, tasks |-> <<>>, finished |-> <<>>]
    /\ image_components = <<>>
    /\ image_index = 0
    /\ command_buffer = NewCommandBuffer
    /\ transient_buffers = <<>>
    /\ \E astc \in BOOLEAN : device = NewDevice(astc)
    /\ events = <<>>
    /\ file_name \in {<<"scene.gltf">>, <<"scenes", "scene.gltf">>}
    /\ IsParserOutcome(parser)
    /\ model_path = <<>>
    /\ caller_scene = PreviousScene
    /\ returned = "none"

\* file_name.find_last_of('/') and substr(0, pos): the components before the
\* last separator; without a separator pos is npos and the path is cleared.
ModelPath(name) ==
    LET pos == Len(name) - 1
        npos == pos = 0
        substr == IF npos THEN name ELSE SubSeq(name, 1, pos)
    IN  IF npos THEN <<>> ELSE substr

\* Lines 319-357 and, when the parser succeeded, load_scene up to line 387.
ReadSceneFromFile ==
    /\ pc = "read_scene_from_file"
    /\ model' = parser.model
    /\ IF ~parser.importResult \/ parser.err # ""
       THEN /\ returned' = "false"
            /\ pc' = "returned"
            /\ UNCHANGED <<model_path, scene, image_components>>
       ELSE /\ model_path' = ModelPath(file_name)
            /\ scene' = NewScene
            /\ image_components' = [k \in 1..Len(parser.model.images) |-> <<>>]
            /\ returned' = returned
            /\ pc' = "dispatch"
    /\ UNCHANGED <<accessorVars, graphVars, thread_pool, image_index, command_buffer,
                   transient_buffers, device, events, file_name, parser, caller_scene>>

\* Lines 441-527 for a document without samplers, textures, materials and
\* meshes: only the default material joins the scene.
LoadComponents ==
    /\ pc = "images_done"
    /\ scene' = [scene EXCEPT !.materials = Append(@, "default_material")]
    /\ pc' = "cameras"
    /\ UNCHANGED <<model, accessorVars, graphVars, imageVars, loaderVars>>

\* Lines 358-360: the loaded scene replaces the caller's; success.
ReturnScene ==
    /\ pc = "done"
    /\ caller_scene' = scene
    /\ returned' = "true"
    /\ pc' = "returned"
    /\ UNCHANGED <<model, accessorVars, graphVars, imageVars, scene, file_name, parser, model_path>>

LoadNext ==
    \/ ReadSceneFromFile
    \/ ImageNext
    \/ LoadComponents
    \/ GraphNext
    \/ ReturnScene

LoadSpec == LoadInit /\ [][LoadNext]_vars

ParserFailed == ~parser.importResult \/ parser.err # ""

\* C11: read_scene_from_file returns failure exactly when the parser reports
\* failure or an error message; then the caller's scene is unchanged, no image
\* task is dispatched and no command is recorded or submitted.  Otherwise the
\* full load runs (it does not stop short of returning), the caller's scene
\* becomes the loaded one and the call returns success.
C11_FailureExactlyOnParserError ==
    /\ returned = "false" <=> (pc = "returned" /\ ParserFailed)
    /\ ParserFailed =>
          /\ pc \in {"read_scene_from_file", "returned"}
          /\ caller_scene = PreviousScene
          /\ thread_pool.tasks = <<>>
          /\ command_buffer = NewCommandBuffer
          /\ device.submissions = <<>>
    /\ ~ParserFailed =>
          /\ pc \notin {"fault", "threw", "bad_alloc"}
          /\ pc = "returned" =>
                /\ returned = "true"
                /\ caller_scene = scene
                /\ Len(caller_scene.images) = Len(model.images)
                /\ Len(device.submissions) = 1
          /\ pc # "returned" => caller_scene = PreviousScene /\ returned = "none"

====
